---- MODULE Spec2Model ----
(***************************************************************************)
(* MainRecommender (src/recommenders.py): the id-remapping dictionaries,   *)
(* the popularity list, and the public request entry points that wrap the  *)
(* calls into the external recommendation library.                         *)
(*                                                                         *)
(* The library (implicit) is not part of the repository.  Its calls are    *)
(* modelled by their contract only: recommend returns at most N distinct   *)
(* item indices, none of them filtered; similar_items / similar_users      *)
(* return the queried index first; a user index that has no matrix row     *)
(* makes the library raise or return nothing.  Which of the allowed        *)
(* answers comes back is a nondeterministic choice.                        *)
(***************************************************************************)
EXTENDS Integers, Sequences, FiniteSets, TLC

\* ------------------------------------------------------------------ bounds
MaxN == 3
MaxRows == 3
MaxUserId == 3

\* ------------------------------------------------------- program constants
Sentinel == 999999

\* Python's None, and a rec[0] of the library that is no matrix index (a score).
None == -1
NotAnIndex == -2

\* External ids.  Item 0 is an item whose external id can coincide with its
\* matrix column; users 1 and 2 may occur in the training transactions.
ItemIds == {0, 5, Sentinel}
UserIds == 1..MaxUserId
TrainUserIds == {1, 2}
NValues == 1..MaxN

VARIABLES
  top_purchases,          \* rows [user_id, item_id, quantity], sorted
  overall_top_purchases,  \* item ids, sorted by purchase count
  user_item_matrix,       \* the pivot [index, columns, values]
  id_to_itemid, id_to_userid, itemid_to_id, userid_to_id,
  models,                 \* attribute names the constructor bound to a model
  call,                   \* the last request [op, user, N]
  outcome,                \* how it ended
  recs,                   \* its list before padding
  padded,                 \* its list after padding
  ret,                    \* the list it returned
  used,                   \* the model attribute it read
  similar                 \* what the library's similar_users answered

vars == <<top_purchases, overall_top_purchases, user_item_matrix,
          id_to_itemid, id_to_userid, itemid_to_id, userid_to_id, models,
          call, outcome, recs, padded, ret, used, similar>>

trained == <<top_purchases, overall_top_purchases, user_item_matrix,
             id_to_itemid, itemid_to_id, models>>

\* ----------------------------------------------------------------- helpers
Range(s) == {s[i] : i \in DOMAIN s}

Min(a, b) == IF a < b THEN a ELSE b

\* Python's s[:n]
Take(s, n) == SubSeq(s, 1, Min(n, Len(s)))

\* Python's s[1:]
Drop1(s) == IF Len(s) = 0 THEN <<>> ELSE Tail(s)

RECURSIVE SortedSeq(_)
SortedSeq(S) ==
  IF S = {} THEN <<>>
  ELSE LET m == CHOOSE x \in S : \A y \in S : x <= y
       IN <<m>> \o SortedSeq(S \ {m})

RECURSIVE SortedDesc(_)
\* every order sort_values(ascending=False) may give the rows: ties in any order
SortedDesc(S) ==
  IF S = {} THEN {<<>>}
  ELSE UNION {{<<r>> \o t : t \in SortedDesc(S \ {r})} :
              r \in {x \in S : \A y \in S : x.quantity >= y.quantity}}

RECURSIVE Sum(_, _)
Sum(f, S) ==
  IF S = {} THEN 0
  ELSE LET x == CHOOSE y \in S : TRUE IN f[x] + Sum(f, S \ {x})

\* all sequences of distinct elements of S, of length at most n
RECURSIVE DistinctSeqs(_, _)
DistinctSeqs(S, n) ==
  IF n = 0 \/ S = {} THEN {<<>>}
  ELSE {<<>>} \cup UNION {{<<x>> \o t : t \in DistinctSeqs(S \ {x}, n - 1)} : x \in S}

\* ------------------------------------------------------------- constructor
Pairs == TrainUserIds \X ItemIds

\* the transaction tables: how many rows each (user, item) pair has
DataSets ==
  {d \in [Pairs -> 0..MaxRows] : Sum(d, Pairs) >= 1 /\ Sum(d, Pairs) <= MaxRows}

\* groupby(['user_id', 'item_id']).count(), sorted, the sentinel rows dropped
TopPurchases(data) ==
  LET rows == {[user_id |-> p[1], item_id |-> p[2], quantity |-> data[p]] :
               p \in {q \in Pairs : data[q] > 0}}
  IN {SelectSeq(s, LAMBDA r : r.item_id # Sentinel) : s \in SortedDesc(rows)}

\* groupby('item_id').count(), sorted, the sentinel dropped, item ids only
OverallTopPurchases(data) ==
  LET cnt(i) == Sum([u \in TrainUserIds |-> data[<<u, i>>]], TrainUserIds)
      rows == {[item_id |-> i, quantity |-> cnt(i)] : i \in {j \in ItemIds : cnt(j) > 0}}
  IN {LET f == SelectSeq(s, LAMBDA r : r.item_id # Sentinel)
      IN [k \in 1..Len(f) |-> f[k].item_id] : s \in SortedDesc(rows)}

_prepare_matrix(data) ==
  LET us == {u \in TrainUserIds : \E i \in ItemIds : data[<<u, i>>] > 0}
      is == {i \in ItemIds : \E u \in TrainUserIds : data[<<u, i>>] > 0}
  IN [index |-> SortedSeq(us), columns |-> SortedSeq(is),
      values |-> [p \in us \X is |-> data[p]]]

_prepare_dicts(m) ==
  LET userids == m.index
      itemids == m.columns
  IN [id_to_itemid |-> [i \in 0..(Len(itemids) - 1) |-> itemids[i + 1]],
      id_to_userid |-> [i \in 0..(Len(userids) - 1) |-> userids[i + 1]],
      itemid_to_id |-> [x \in Range(itemids) |-> (CHOOSE k \in 1..Len(itemids) : itemids[k] = x) - 1],
      userid_to_id |-> [x \in Range(userids) |-> (CHOOSE k \in 1..Len(userids) : userids[k] = x) - 1]]

\* the attributes __init__ binds to a fitted model
FittedModels == {"model", "model_bm25", "model_tfidf", "model_cosine", "own_recommender"}

Init ==
  \E data \in DataSets :
    LET m == _prepare_matrix(data)
        d == _prepare_dicts(m)
    IN /\ top_purchases \in TopPurchases(data)
       /\ overall_top_purchases \in OverallTopPurchases(data)
       /\ user_item_matrix = m
       /\ id_to_itemid = d.id_to_itemid
       /\ id_to_userid = d.id_to_userid
       /\ itemid_to_id = d.itemid_to_id
       /\ userid_to_id = d.userid_to_id
       /\ models = FittedModels
       /\ call = [op |-> "none", user |-> 0, N |-> 0]
       /\ outcome = "none"
       /\ recs = <<>>
       /\ padded = <<>>
       /\ ret = <<>>
       /\ used = "none"
       /\ similar = <<>>

\* ------------------------------------------------------------- the library
Rows == 0..(Len(user_item_matrix.index) - 1)
Columns == 0..(Len(user_item_matrix.columns) - 1)

\* model.recommend(userid, N, filter_items): the ids it may return
recommend(userid, N, filter_items) ==
  IF userid \in Rows
  THEN {[error |-> FALSE, ids |-> s] : s \in DistinctSeqs(Columns \ filter_items, N)}
  ELSE {[error |-> TRUE, ids |-> <<>>], [error |-> FALSE, ids |-> <<>>]}

\* model.rank_items(userid, selected_items): the selected items in score order
rank_items(userid, selected_items) ==
  IF userid \in Rows
  THEN {[error |-> FALSE, ids |-> s] :
        s \in {t \in DistinctSeqs(Range(selected_items), Len(selected_items)) :
               Len(t) = Cardinality(Range(selected_items))}}
  ELSE {[error |-> TRUE, ids |-> <<>>], [error |-> FALSE, ids |-> <<>>]}

\* model.similar_items(itemid, N=2): rec[0] of each rec, the item itself first
similar_items(itemid) ==
  (IF Columns = {itemid} THEN {<<itemid>>} ELSE {})
  \cup {<<itemid, x>> : x \in (Columns \ {itemid}) \cup {NotAnIndex}}

\* model.similar_users(userid, N): rec[0] of each rec, the user itself first
similar_users(userid, N) ==
  IF userid \in Rows
  THEN {[error |-> FALSE, ids |-> <<userid>> \o s] :
        s \in {t \in DistinctSeqs(Rows \ {userid}, N - 1) :
               Len(t) = Min(N - 1, Cardinality(Rows) - 1)}}
  ELSE {[error |-> TRUE, ids |-> <<>>], [error |-> FALSE, ids |-> <<>>]}

\* ---------------------------------------------------------------- lookups
\* str(i): a string, never equal to an integer key
Str(i) == <<"str", i>>

\* k in d, for a dict d whose keys are integers
HasKey(d, k) == k[1] = "int" /\ k[2] \in DOMAIN d

\* d.get(k)
DictGet(d, k) == IF HasKey(d, k) THEN d[k[2]] ELSE None

\* what a request leaves behind: how it ended, its lists, the user mappings
Result(o, r, p, t, m, s, u2i, i2u) ==
  [outcome |-> o, recs |-> r, padded |-> p, ret |-> t, used |-> m, similar |-> s,
   userid_to_id |-> u2i, id_to_userid |-> i2u]

Raise(e, m, d) == Result(e, <<>>, <<>>, <<>>, m, <<>>, d.userid_to_id, d.id_to_userid)

\* ------------------------------------------------------------ _update_dict
MaxOf(S) == CHOOSE x \in S : \A y \in S : y <= x

\* _update_dict taking the largest index, not the one after it
_update_dict_same_index(u2i, i2u, user_id) ==
  IF user_id \notin DOMAIN u2i
  THEN LET max_id == MaxOf(Range(u2i))
       IN [userid_to_id |-> (user_id :> max_id) @@ u2i,
           id_to_userid |-> (max_id :> user_id) @@ i2u]
  ELSE [userid_to_id |-> u2i, id_to_userid |-> i2u]

\* _update_dict without its test for a user that is mapped already
_update_dict_unguarded(u2i, i2u, user_id) ==
  LET max_id == MaxOf(Range(u2i)) + 1
  IN [userid_to_id |-> (user_id :> max_id) @@ u2i,
      id_to_userid |-> (max_id :> user_id) @@ i2u]

_update_dict(u2i, i2u, user_id) ==
  IF user_id \notin DOMAIN u2i
  THEN LET max_id == MaxOf(Range(u2i)) + 1
       IN [userid_to_id |-> (user_id :> max_id) @@ u2i,
           id_to_userid |-> (max_id :> user_id) @@ i2u]
  ELSE [userid_to_id |-> u2i, id_to_userid |-> i2u]

\* ------------------------------------------------------- _get_similar_item
RECURSIVE FirstOther(_, _)
\* the loop of _get_similar_item over recs: the first rec[0] != item_id
FirstOther(recs_, item_id) ==
  IF recs_ = <<>> THEN [raised |-> FALSE, value |-> None]
  ELSE IF Head(recs_) # item_id
       THEN IF Head(recs_) \in DOMAIN id_to_itemid
            THEN [raised |-> FALSE, value |-> id_to_itemid[Head(recs_)]]
            ELSE [raised |-> TRUE, value |-> None]
       ELSE FirstOther(Tail(recs_), item_id)

\* every answer of _get_similar_item(item_id), by the library's answer
_get_similar_item(item_id) ==
  {FirstOther(r, item_id) : r \in similar_items(itemid_to_id[item_id])}

\* ------------------------------------------------ _extend_with_top_popular
\* _extend_with_top_popular without the cut to N
_extend_without_cut(recommendations, N) ==
  IF Len(recommendations) < N
  THEN recommendations \o Take(overall_top_purchases, N)
  ELSE recommendations

\* _extend_with_top_popular putting the popular items first
_extend_popular_first(recommendations, N) ==
  IF Len(recommendations) < N
  THEN Take(Take(overall_top_purchases, N) \o recommendations, N)
  ELSE recommendations

_extend_with_top_popular(recommendations, N) ==
  IF Len(recommendations) < N
  THEN Take(recommendations \o Take(overall_top_purchases, N), N)
  ELSE recommendations

\* the assertion on the length, and the return
AssertReturn(r, ext, N, m, s, d) ==
  IF Len(ext) = N
  THEN Result("returned", r, ext, ext, m, s, d.userid_to_id, d.id_to_userid)
  ELSE Result("AssertionError", r, ext, <<>>, m, s, d.userid_to_id, d.id_to_userid)

\* ---------------------------------------------------- _get_recommendations
_get_recommendations(u2i, i2u, user, model, N) ==
  LET d == _update_dict(u2i, i2u, user)
  IN IF Sentinel \notin DOMAIN itemid_to_id
     THEN {Raise("KeyError", model, d)}
     ELSE {IF r.error
           THEN Raise("LibraryError", model, d)
           ELSE LET res == [k \in 1..Len(r.ids) |-> id_to_itemid[r.ids[k]]]
                IN AssertReturn(res, _extend_with_top_popular(res, N), N, model, <<>>, d) :
           r \in recommend(d.userid_to_id[user], N, {itemid_to_id[Sentinel]})}

\* get_<variant>_recommendations: the attribute self.<model> is read, then
\* _get_recommendations runs
Recommendations(u2i, i2u, user, model, N) ==
  LET d == _update_dict(u2i, i2u, user)
  IN IF model \notin models
     THEN {Raise("AttributeError", model, d)}
     ELSE _get_recommendations(d.userid_to_id, d.id_to_userid, user, model, N)

\* ------------------------------------------------------------- _get_scores
\* the score model gives item index i
Score(model, i) == <<model, i>>

_get_scores(u2i, i2u, user, model, N) ==
  LET d == _update_dict(u2i, i2u, user)
      userid == d.userid_to_id[user]
  IN IF Sentinel \notin DOMAIN itemid_to_id
     THEN {Raise("KeyError", model, d)}
     ELSE UNION {
       IF r.error
       THEN {Raise("LibraryError", model, d)}
       ELSE LET scores_rec == [k \in 1..Len(r.ids) |-> Score(model, r.ids[k])]
            IN IF Len(scores_rec) < N
               THEN {IF a.error
                     THEN Raise("LibraryError", model, d)
                     ELSE LET additional_rec == [k \in 1..Len(a.ids) |-> Score(model, a.ids[k])]
                              ext == Take(scores_rec \o additional_rec, N)
                          IN AssertReturn(scores_rec, ext, N, model, <<>>, d) :
                     a \in rank_items(userid,
                                      [k \in 1..Len(overall_top_purchases) |->
                                         itemid_to_id[overall_top_purchases[k]]])}
               ELSE {AssertReturn(scores_rec, Take(scores_rec, N), N, model, <<>>, d)} :
       r \in recommend(userid, N, {itemid_to_id[Sentinel]})}

Scores(u2i, i2u, user, model, N) ==
  LET d == _update_dict(u2i, i2u, user)
  IN IF model \notin models
     THEN {Raise("AttributeError", model, d)}
     ELSE _get_scores(d.userid_to_id, d.id_to_userid, user, model, N)

\* ---------------------------------------- get_similar_items_recommendation
\* top_purchases[top_purchases['user_id'] == user_id].head(N)['item_id']
TopUsersPurchases(user_id, N) ==
  LET t == Take(SelectSeq(top_purchases, LAMBDA r : r.user_id = user_id), N)
  IN [k \in 1..Len(t) |-> t[k].item_id]

SimilarItemsRecommendation(user_id, N) ==
  LET items == TopUsersPurchases(user_id, N)
      d == [userid_to_id |-> userid_to_id, id_to_userid |-> id_to_userid]
      answers == UNION {_get_similar_item(items[k]) : k \in 1..Len(items)}
  IN {IF \E k \in 1..Len(items) : f[k].raised
      THEN Raise("KeyError", "model", d)
      ELSE LET res == [k \in 1..Len(items) |-> f[k].value]
           IN AssertReturn(res, _extend_with_top_popular(res, N), N, "model", <<>>, d) :
      f \in {g \in [1..Len(items) -> answers] :
             \A k \in 1..Len(items) : g[k] \in _get_similar_item(items[k])}}

\* ---------------------------------------- get_similar_users_recommendation
RECURSIVE OwnLoop(_, _)
\* for _user_id in similar_users: res.extend(get_own_recommendations(_user_id, N=1))
OwnLoop(users, st) ==
  IF users = <<>> THEN {st}
  ELSE UNION {
    IF s.outcome # "returned"
    THEN {[st EXCEPT !.outcome = s.outcome,
                     !.userid_to_id = s.userid_to_id, !.id_to_userid = s.id_to_userid]}
    ELSE OwnLoop(Tail(users),
                 [st EXCEPT !.res = st.res \o s.ret,
                            !.userid_to_id = s.userid_to_id, !.id_to_userid = s.id_to_userid]) :
    s \in Recommendations(st.userid_to_id, st.id_to_userid, Head(users), "own_recommender", 1)}

SimilarUsersRecommendation(user_id, N) ==
  LET d == [userid_to_id |-> userid_to_id, id_to_userid |-> id_to_userid]
  IN IF user_id \notin DOMAIN userid_to_id
     THEN {Raise("KeyError", "model", d)}
     ELSE UNION {
       IF r.error
       THEN {Raise("LibraryError", "model", d)}
       ELSE LET known == SelectSeq(r.ids, LAMBDA rec : HasKey(id_to_userid, Str(rec)))
                found == [k \in 1..Len(known) |-> DictGet(id_to_userid, Str(known[k]))]
                others == Drop1(found)
            IN {IF s.outcome # "returned"
                THEN Result(s.outcome, <<>>, <<>>, <<>>, "model", r.ids,
                            s.userid_to_id, s.id_to_userid)
                ELSE AssertReturn(s.res, _extend_with_top_popular(s.res, N), N, "model", r.ids, s) :
                s \in OwnLoop(others, [outcome |-> "returned", res |-> <<>>,
                                       userid_to_id |-> userid_to_id,
                                       id_to_userid |-> id_to_userid])} :
       r \in similar_users(userid_to_id[user_id], N + 1)}

\* ----------------------------------------------------------------- requests
\* Requests are single-threaded calls: one runs to its end (a return or a raise)
\* and its caller takes the answer before the next one starts.
NoCall == [op |-> "none", user |-> 0, N |-> 0]

\* one request: the entry point op runs for (user, N) and ends as one of results
Request(op, user, N, results) ==
  /\ outcome = "none"
  /\ \E s \in results :
       /\ call' = [op |-> op, user |-> user, N |-> N]
       /\ outcome' = s.outcome
       /\ recs' = s.recs
       /\ padded' = s.padded
       /\ ret' = s.ret
       /\ used' = s.used
       /\ similar' = s.similar
       /\ userid_to_id' = s.userid_to_id
       /\ id_to_userid' = s.id_to_userid
       /\ UNCHANGED trained

get_als_recommendations ==
  \E user \in UserIds, N \in NValues :
    Request("get_als_recommendations", user, N,
            Recommendations(userid_to_id, id_to_userid, user, "model", N))

get_bm25_recommendations ==
  \E user \in UserIds, N \in NValues :
    Request("get_bm25_recommendations", user, N,
            Recommendations(userid_to_id, id_to_userid, user, "model_bm25", N))

get_tfidf_recommendations ==
  \E user \in UserIds, N \in NValues :
    Request("get_tfidf_recommendations", user, N,
            Recommendations(userid_to_id, id_to_userid, user, "model_tfidf", N))

get_cosine_recommendations ==
  \E user \in UserIds, N \in NValues :
    Request("get_cosine_recommendations", user, N,
            Recommendations(userid_to_id, id_to_userid, user, "model_cosine", N))

get_own_recommendations ==
  \E user \in UserIds, N \in NValues :
    Request("get_own_recommendations", user, N,
            Recommendations(userid_to_id, id_to_userid, user, "own_recommender", N))

get_similar_items_recommendation ==
  \E user \in UserIds, N \in NValues :
    Request("get_similar_items_recommendation", user, N,
            SimilarItemsRecommendation(user, N))

get_similar_users_recommendation ==
  \E user \in UserIds, N \in NValues :
    Request("get_similar_users_recommendation", user, N,
            SimilarUsersRecommendation(user, N))

get_als_scores ==
  \E user \in UserIds, N \in NValues :
    Request("get_als_scores", user, N,
            Scores(userid_to_id, id_to_userid, user, "model_als", N))

get_bm25_scores ==
  \E user \in UserIds, N \in NValues :
    Request("get_bm25_scores", user, N,
            Scores(userid_to_id, id_to_userid, user, "model_bm25", N))

get_tfidf_scores ==
  \E user \in UserIds, N \in NValues :
    Request("get_tfidf_scores", user, N,
            Scores(userid_to_id, id_to_userid, user, "model_tfidf", N))

get_cosine_scores ==
  \E user \in UserIds, N \in NValues :
    Request("get_cosine_scores", user, N,
            Scores(userid_to_id, id_to_userid, user, "model_cosine", N))

get_own_scores ==
  \E user \in UserIds, N \in NValues :
    Request("get_own_scores", user, N,
            Scores(userid_to_id, id_to_userid, user, "own_recommender", N))

\* the caller has the answer: the locals of the call are gone, the object stays
Return ==
  /\ outcome # "none"
  /\ call' = NoCall
  /\ outcome' = "none"
  /\ recs' = <<>>
  /\ padded' = <<>>
  /\ ret' = <<>>
  /\ used' = "none"
  /\ similar' = <<>>
  /\ UNCHANGED <<trained, userid_to_id, id_to_userid>>

Next ==
  \/ Return
  \/ get_als_recommendations
  \/ get_bm25_recommendations
  \/ get_tfidf_recommendations
  \/ get_cosine_recommendations
  \/ get_own_recommendations
  \/ get_similar_items_recommendation
  \/ get_similar_users_recommendation
  \/ get_als_scores
  \/ get_bm25_scores
  \/ get_tfidf_scores
  \/ get_cosine_scores
  \/ get_own_scores

Spec == Init /\ [][Next]_vars

\* ------------------------------------------------------------------ claims
RecommendationOps ==
  {"get_als_recommendations", "get_bm25_recommendations", "get_tfidf_recommendations",
   "get_cosine_recommendations", "get_own_recommendations"}

SimilarOps == {"get_similar_items_recommendation", "get_similar_users_recommendation"}

ScoreOps ==
  {"get_als_scores", "get_bm25_scores", "get_tfidf_scores", "get_cosine_scores",
   "get_own_scores"}

\* the entry points that pad with _extend_with_top_popular
PaddedOps == RecommendationOps \cup SimilarOps

\* the request got as far as its length assertion
Asserted == outcome \in {"returned", "AssertionError"}

\* the users of the training transactions: those with a matrix row
TrainedUsers == Range(user_item_matrix.index)

\* the model attribute get_<variant>_recommendations passes on
RecommendationModel ==
  [get_als_scores |-> "model", get_bm25_scores |-> "model_bm25",
   get_tfidf_scores |-> "model_tfidf", get_cosine_scores |-> "model_cosine",
   get_own_scores |-> "own_recommender"]

\* f and g are functions inverse to each other
Inverse(f, g) ==
  /\ \A x \in DOMAIN f : f[x] \in DOMAIN g /\ g[f[x]] = x
  /\ \A y \in DOMAIN g : g[y] \in DOMAIN f /\ f[g[y]] = y

\* C1: every request to a public entry point ends by returning a list of exactly
\* N entries or by the length assertion failing; no lookup of this code raises
\* anything else (an error the library raises itself is passed on and set aside).
C1_ReturnsNOrAssertionFails ==
  call.op # "none" =>
    \/ outcome = "returned" /\ Len(ret) = call.N
    \/ outcome = "AssertionError"
    \/ outcome = "LibraryError"

\* C2 as stated: the length assertion of the padded entry points fails when the
\* popularity pool is smaller than N, and only then.
C2_AssertionIffPoolSmallerThanN ==
  (call.op \in PaddedOps /\ Asserted) =>
    (outcome = "AssertionError" <=> Len(overall_top_purchases) < call.N)

\* C2 as amended: the assertion fails exactly when the model's results and the
\* pool together hold fewer than N entries, so only when the pool is smaller
\* than N; with a pool of at least N items the padded list has exactly N
\* entries and the request returns.
C2_AssertionOnlyWhenPoolTooSmall ==
  (call.op \in PaddedOps /\ Asserted) =>
    /\ outcome = "AssertionError" <=> Len(recs) + Len(overall_top_purchases) < call.N
    /\ outcome = "AssertionError" => Len(overall_top_purchases) < call.N
    /\ Len(overall_top_purchases) >= call.N =>
         outcome = "returned" /\ Len(padded) = call.N /\ Len(recs) \in 0..call.N

C2_Witness ==
  /\ call.op \in PaddedOps
  /\ outcome = "AssertionError"
  /\ Len(overall_top_purchases) < call.N
  /\ Len(overall_top_purchases) > 0

\* C3: the user mappings are inverse to each other and so are the item mappings;
\* the user indices are the integers from 0 on with none left out or held twice;
\* a request leaves a mapped user its index and gives a new user the next unused
\* index.
C3_MappingsStayInverse ==
  /\ [](/\ Inverse(userid_to_id, id_to_userid)
        /\ Inverse(itemid_to_id, id_to_itemid)
        /\ Range(userid_to_id) = 0..(Cardinality(DOMAIN userid_to_id) - 1))
  /\ [][/\ \A u \in DOMAIN userid_to_id :
             u \in DOMAIN userid_to_id' /\ userid_to_id'[u] = userid_to_id[u]
        /\ \A u \in DOMAIN userid_to_id' \ DOMAIN userid_to_id :
             /\ userid_to_id'[u] = Cardinality(DOMAIN userid_to_id)
             /\ userid_to_id'[u] \notin Range(userid_to_id)]_vars

C3_Witness ==
  /\ call.op # "none"
  /\ \E u, v \in DOMAIN userid_to_id \ TrainedUsers :
       /\ u # v
       /\ userid_to_id[u] # userid_to_id[v]
       /\ call.user = v

\* C4: for a user that is not in the training transactions every recommendation
\* entry point returns the first N items of overall_top_purchases whenever that
\* list has at least N items (an error the library raises itself set aside).
C4_UnseenUserGetsPopular ==
  (/\ call.op \in PaddedOps
   /\ call.user \notin TrainedUsers
   /\ Len(overall_top_purchases) >= call.N
   /\ outcome # "LibraryError") =>
    outcome = "returned" /\ ret = Take(overall_top_purchases, call.N)

\* C5: the sentinel item 999999 is in neither popularity ranking and in no list a
\* recommendation entry point returns.
C5_SentinelNeverRecommended ==
  /\ Sentinel \notin Range(overall_top_purchases)
  /\ \A k \in 1..Len(top_purchases) : top_purchases[k].item_id # Sentinel
  /\ (call.op \in PaddedOps /\ outcome = "returned") => Sentinel \notin Range(ret)

\* C6: get_<variant>_scores reads the model get_<variant>_recommendations uses
\* and returns N scores of that model.
C6_ScoresUseTheVariantsModel ==
  call.op \in ScoreOps =>
    /\ used = RecommendationModel[call.op]
    /\ used \in models
    /\ outcome = "returned" =>
         /\ Len(ret) = call.N
         /\ \A k \in 1..Len(ret) : ret[k][1] = RecommendationModel[call.op]

\* C7: every entry get_similar_items_recommendation computes for one of the
\* user's top purchases p is an item other than p, and is not None.
C7_SimilarItemIsAnotherItem ==
  (call.op = "get_similar_items_recommendation" /\ Asserted) =>
    \A k \in 1..Len(recs) :
      /\ recs[k] # TopUsersPurchases(call.user, call.N)[k]
      /\ recs[k] # None

\* C8: for a trained user the list of get_similar_users_recommendation holds,
\* before padding, one entry for every user the similar-user search returned
\* other than the user of the request; popularity items are added only when
\* fewer than N similar users came back.
C8_OneEntryPerSimilarUser ==
  (/\ call.op = "get_similar_users_recommendation"
   /\ call.user \in TrainedUsers
   /\ Asserted) =>
    /\ Len(recs) = Len(Drop1(similar))
    /\ Len(Drop1(similar)) >= call.N => padded = recs

\* C9: padding keeps the k model results in their order and, when k < N, appends
\* the first N - k items of overall_top_purchases in its order; with k >= N the
\* list is returned as it is.
C9_PaddingAppendsTopPopular ==
  (call.op \in PaddedOps /\ Asserted) =>
    LET k == Len(recs)
    IN IF k < call.N
       THEN /\ Len(padded) = Min(call.N, k + Len(overall_top_purchases))
            /\ \A i \in 1..Len(padded) :
                 padded[i] = IF i <= k THEN recs[i] ELSE overall_top_purchases[i - k]
       ELSE padded = recs

C9_Witness ==
  /\ call.op \in PaddedOps
  /\ outcome = "returned"
  /\ Len(recs) >= 1
  /\ Len(recs) < call.N
  /\ Len(recs) + Len(overall_top_purchases) > call.N
  /\ padded[call.N] = overall_top_purchases[call.N - Len(recs)]

\* C10: no request changes the popularity lists, the item mappings or the index
\* of a mapped user; all a request may change in the object is to add the pair
\* of the requested user, when that user was not mapped, to both user mappings.
C10_RequestsLeaveTrainedState ==
  [][/\ overall_top_purchases' = overall_top_purchases
     /\ top_purchases' = top_purchases
     /\ itemid_to_id' = itemid_to_id
     /\ id_to_itemid' = id_to_itemid
     /\ \A u \in DOMAIN userid_to_id :
          u \in DOMAIN userid_to_id' /\ userid_to_id'[u] = userid_to_id[u]
     /\ \A i \in DOMAIN id_to_userid :
          i \in DOMAIN id_to_userid' /\ id_to_userid'[i] = id_to_userid[i]
     /\ DOMAIN userid_to_id' \ DOMAIN userid_to_id \subseteq {call'.user}
     /\ Cardinality(DOMAIN id_to_userid' \ DOMAIN id_to_userid)
          = Cardinality(DOMAIN userid_to_id' \ DOMAIN userid_to_id)]_vars

C10_Witness ==
  /\ call.op \in PaddedOps \cup ScoreOps
  /\ call.user \notin TrainedUsers
  /\ call.user \in DOMAIN userid_to_id
  /\ \E u \in DOMAIN userid_to_id \ TrainedUsers : u # call.user
  /\ outcome = "returned"
  /\ Len(padded) > Len(recs)

====
